---- MODULE Spec2Model ----
(***************************************************************************)
(* Model of the auction crate: the AuctionBuilder (lib.rs), the dispatch   *)
(* of Auction::resolve_bids (lib.rs) and the single price algorithm        *)
(* (single_price.rs), one action per call or per loop iteration.           *)
(*                                                                         *)
(* Option<T> is modelled as a sequence: <<>> is None, <<x>> is Some(x).    *)
(* A Uuid is modelled as a natural number; Uuid::new_v4() hands out the    *)
(* next number never handed out before (next_id).                          *)
(***************************************************************************)
EXTENDS Integers, Sequences, FiniteSets, TLC

\* ---- bounds of the model ----
MaxBids == 3
MaxDebit == 1
MaxAmount == 1
MaxQuantity == 2
MaxLots == 3

\* i64 amounts, negative ones included
Amounts == (0 - MaxDebit)..MaxAmount
Quantities == 0..MaxQuantity
LotCounts == 0..MaxLots

\* enum AuctionStrategy
AuctionStrategy == {"SinglePrice", "MultiPrice"}

VARIABLES
    pc,             \* position of the caller / of single_price
    builder,        \* the AuctionBuilder value
    last_set,       \* history: per field, the last value a setter was given
    auction,        \* the Auction produced by build()
    bids,           \* the caller's Vec<Bid>, in input order
    next_id,        \* the next fresh Uuid
    sorted_bids,    \* single_price's `bids` after sort_by
    idx,            \* position of `for bid in bids.iter()`
    remaining_lots, \* single_price's remaining_lots
    winning_bids,   \* single_price's winning_bids
    sales           \* the returned Sales

vars == <<pc, builder, last_set, auction, bids, next_id, sorted_bids, idx,
          remaining_lots, winning_bids, sales>>

\* ---- Option helpers ----
None == <<>>
Some(x) == <<x>>
\* Option::unwrap_or
UnwrapOr(opt, d) == IF opt = None THEN d ELSE opt[1]

\* ---- lib.rs: the builder ----
\* AuctionBuilder::new()
AuctionBuilderNew == [lots |-> 1, reserve_price |-> None, strategy |-> None]

\* #[derive(Default)] on AuctionBuilder: usize::default() = 0, Option::default() = None
AuctionBuilderDefault == [lots |-> 0, reserve_price |-> None, strategy |-> None]

\* the value of `auction` before build() has produced one
Unbuilt == [lots |-> 0, reserve_price |-> 0, strategy |-> "SinglePrice"]

\* AuctionBuilder::build
BuildAuction(b) ==
    [lots |-> b.lots,
     reserve_price |-> UnwrapOr(b.reserve_price, 0),
     strategy |-> UnwrapOr(b.strategy, "SinglePrice")]

\* ---- lib.rs: Bid and Sale ----
\* Bid::new with the Uuid it drew
BidNew(id, amount, quantity) == [id |-> id, amount |-> amount, quantity |-> quantity]

\* Sale::new
SaleNew(bidder_id, amount, quantity) ==
    [bidder_id |-> bidder_id, amount |-> amount, quantity |-> quantity]

\* impl Ord for Bid: cmp compares the amounts only; -1 Less, 0 Equal, 1 Greater
BidCmp(a, b) ==
    IF a.amount < b.amount THEN -1 ELSE IF a.amount = b.amount THEN 0 ELSE 1

\* ---- single_price.rs ----
\* the comparator closure of line 14: |a, b| b.cmp(a)
SortCmp(a, b) == BidCmp(b, a)

\* stable insertion of x into an already sorted s: x goes after every
\* element that does not compare Greater than it
RECURSIVE InsertStable(_, _)
InsertStable(s, x) ==
    IF s = <<>> THEN <<x>>
    ELSE IF SortCmp(Head(s), x) = 1
         THEN <<x>> \o s
         ELSE <<Head(s)>> \o InsertStable(Tail(s), x)

\* a faulty insertion: x goes before the elements it compares Equal to
RECURSIVE InsertUnstable(_, _)
InsertUnstable(s, x) ==
    IF s = <<>> THEN <<x>>
    ELSE IF SortCmp(Head(s), x) >= 0
         THEN <<x>> \o s
         ELSE <<Head(s)>> \o InsertUnstable(Tail(s), x)

RECURSIVE SortUnstable(_)
SortUnstable(s) ==
    IF s = <<>> THEN <<>>
    ELSE InsertUnstable(SortUnstable(SubSeq(s, 1, Len(s) - 1)), s[Len(s)])

\* bids.sort_by(|a, b| b.cmp(a)): slice::sort_by is a stable sort
RECURSIVE SortBy(_)
SortBy(s) ==
    IF s = <<>> THEN <<>>
    ELSE InsertStable(SortBy(SubSeq(s, 1, Len(s) - 1)), s[Len(s)])

\* line 19 with the comparison weakened to <=
BelowReserveOrEqual(bid, reserve_price) == bid.amount <= reserve_price

\* line 19: bid.amount < auction.reserve_price
BelowReserve(bid, reserve_price) == bid.amount < reserve_price

\* line 22 off by one: a bid one unit too large still fits
FitsOffByOne(bid, remaining) == bid.quantity <= remaining + 1

\* line 22 with a strict comparison
FitsStrict(bid, remaining) == bid.quantity < remaining

\* line 22: bid.quantity <= remaining_lots
Fits(bid, remaining) == bid.quantity <= remaining

\* line 25 requiring more than one lot
CanPartialFillTwo(remaining) == remaining > 1

\* line 25: remaining_lots > 0
CanPartialFill(remaining) == remaining > 0

\* line 26: Bid::new(bid.amount, remaining_lots), which draws a new Uuid
PartialBid(id, bid, remaining) == BidNew(id, bid.amount, remaining)

\* lines 34-37 taking the first winner instead of the last
FirstWinningBidAmount(winning) == winning[1].amount

\* lines 34-37: winning_bids.last() is Some(bid) => bid.amount
LowestWinningBidAmount(winning) == winning[Len(winning)].amount

\* lines 39-42: one Sale per winning bid at the given amount
MakeSales(winning, amount) ==
    [k \in 1..Len(winning) |->
        SaleNew(winning[k].id, amount, winning[k].quantity)]

\* ---- initial state: a builder from new() or from Default ----
Init ==
    /\ pc = "builder"
    /\ builder \in {AuctionBuilderNew, AuctionBuilderDefault}
    /\ last_set = [lots |-> None, reserve_price |-> None, strategy |-> None]
    /\ auction = Unbuilt
    /\ bids = <<>>
    /\ next_id = 1
    /\ sorted_bids = <<>>
    /\ idx = 1
    /\ remaining_lots = 0
    /\ winning_bids = <<>>
    /\ sales = <<>>

\* ---- lib.rs actions ----
\* AuctionBuilder::lots
Lots(n) ==
    /\ pc = "builder"
    /\ builder' = [builder EXCEPT !.lots = n]
    /\ last_set' = [last_set EXCEPT !.lots = Some(n)]
    /\ UNCHANGED <<pc, auction, bids, next_id, sorted_bids, idx,
                   remaining_lots, winning_bids, sales>>

\* AuctionBuilder::reserve_price
ReservePrice(r) ==
    /\ pc = "builder"
    /\ builder' = [builder EXCEPT !.reserve_price = Some(r)]
    /\ last_set' = [last_set EXCEPT !.reserve_price = Some(r)]
    /\ UNCHANGED <<pc, auction, bids, next_id, sorted_bids, idx,
                   remaining_lots, winning_bids, sales>>

\* AuctionBuilder::strategy
Strategy(s) ==
    /\ pc = "builder"
    /\ builder' = [builder EXCEPT !.strategy = Some(s)]
    /\ last_set' = [last_set EXCEPT !.strategy = Some(s)]
    /\ UNCHANGED <<pc, auction, bids, next_id, sorted_bids, idx,
                   remaining_lots, winning_bids, sales>>

\* AuctionBuilder::build
Build ==
    /\ pc = "builder"
    /\ auction' = BuildAuction(builder)
    /\ pc' = "built"
    /\ UNCHANGED <<builder, last_set, bids, next_id, sorted_bids, idx,
                   remaining_lots, winning_bids, sales>>

\* the caller adds Bid::new(amount, quantity) to its Vec<Bid>
NewBid(amount, quantity) ==
    /\ pc = "built"
    /\ Len(bids) < MaxBids
    /\ bids' = Append(bids, BidNew(next_id, amount, quantity))
    /\ next_id' = next_id + 1
    /\ UNCHANGED <<pc, builder, last_set, auction, sorted_bids, idx,
                   remaining_lots, winning_bids, sales>>

\* Auction::resolve_bids: the match on self.strategy.  The body of
\* strategies::multi_price is not in the sources; "multi_price" is final.
ResolveBids ==
    /\ pc = "built"
    /\ pc' = IF auction.strategy = "SinglePrice" THEN "single_price"
                                                  ELSE "multi_price"
    /\ UNCHANGED <<builder, last_set, auction, bids, next_id, sorted_bids, idx,
                   remaining_lots, winning_bids, sales>>

\* ---- single_price.rs actions ----
\* lines 14-17: sort, remaining_lots = auction.lots, winning_bids = Vec::new()
SortBids ==
    /\ pc = "single_price"
    /\ sorted_bids' = SortBy(bids)
    /\ remaining_lots' = auction.lots
    /\ winning_bids' = <<>>
    /\ idx' = 1
    /\ pc' = "scan"
    /\ UNCHANGED <<builder, last_set, auction, bids, next_id, sales>>

\* lines 19-21: the bid is below the reserve price, break
ScanReserveBreak ==
    /\ pc = "scan"
    /\ idx <= Len(sorted_bids)
    /\ BelowReserve(sorted_bids[idx], auction.reserve_price)
    /\ pc' = "collect"
    /\ UNCHANGED <<builder, last_set, auction, bids, next_id, sorted_bids, idx,
                   remaining_lots, winning_bids, sales>>

\* lines 22-24: the bid fits, it wins in full
ScanAcceptFull ==
    /\ pc = "scan"
    /\ idx <= Len(sorted_bids)
    /\ ~BelowReserve(sorted_bids[idx], auction.reserve_price)
    /\ Fits(sorted_bids[idx], remaining_lots)
    /\ remaining_lots' = remaining_lots - sorted_bids[idx].quantity
    /\ winning_bids' = Append(winning_bids, sorted_bids[idx])
    /\ idx' = idx + 1
    /\ UNCHANGED <<pc, builder, last_set, auction, bids, next_id, sorted_bids,
                   sales>>

\* lines 25-28: a new bid for the remaining lots wins; the loop goes on
ScanPartialFill ==
    /\ pc = "scan"
    /\ idx <= Len(sorted_bids)
    /\ ~BelowReserve(sorted_bids[idx], auction.reserve_price)
    /\ ~Fits(sorted_bids[idx], remaining_lots)
    /\ CanPartialFill(remaining_lots)
    /\ winning_bids' = Append(winning_bids,
                              PartialBid(next_id, sorted_bids[idx], remaining_lots))
    /\ next_id' = next_id + 1
    /\ remaining_lots' = 0
    /\ idx' = idx + 1
    /\ UNCHANGED <<pc, builder, last_set, auction, bids, sorted_bids, sales>>

\* lines 29-31: nothing remains for a bid that does not fit, break
ScanExhaustedBreak ==
    /\ pc = "scan"
    /\ idx <= Len(sorted_bids)
    /\ ~BelowReserve(sorted_bids[idx], auction.reserve_price)
    /\ ~Fits(sorted_bids[idx], remaining_lots)
    /\ ~CanPartialFill(remaining_lots)
    /\ pc' = "collect"
    /\ UNCHANGED <<builder, last_set, auction, bids, next_id, sorted_bids, idx,
                   remaining_lots, winning_bids, sales>>

\* line 18: the iterator is exhausted
ScanEnd ==
    /\ pc = "scan"
    /\ idx > Len(sorted_bids)
    /\ pc' = "collect"
    /\ UNCHANGED <<builder, last_set, auction, bids, next_id, sorted_bids, idx,
                   remaining_lots, winning_bids, sales>>

\* lines 34-35: winning_bids.last() is None => return Vec::new()
ReturnEmpty ==
    /\ pc = "collect"
    /\ winning_bids = <<>>
    /\ sales' = <<>>
    /\ pc' = "done"
    /\ UNCHANGED <<builder, last_set, auction, bids, next_id, sorted_bids, idx,
                   remaining_lots, winning_bids>>

\* lines 36-42: every winning bid becomes a Sale at the last winner's amount
ReturnSales ==
    /\ pc = "collect"
    /\ winning_bids # <<>>
    /\ sales' = MakeSales(winning_bids, LowestWinningBidAmount(winning_bids))
    /\ pc' = "done"
    /\ UNCHANGED <<builder, last_set, auction, bids, next_id, sorted_bids, idx,
                   remaining_lots, winning_bids>>

Next ==
    \/ \E n \in LotCounts : Lots(n)
    \/ \E r \in Amounts : ReservePrice(r)
    \/ \E s \in AuctionStrategy : Strategy(s)
    \/ Build
    \/ \E a \in Amounts, q \in Quantities : NewBid(a, q)
    \/ ResolveBids
    \/ SortBids
    \/ ScanReserveBreak
    \/ ScanAcceptFull
    \/ ScanPartialFill
    \/ ScanExhaustedBreak
    \/ ScanEnd
    \/ ReturnEmpty
    \/ ReturnSales

Spec == Init /\ [][Next]_vars

\* ---- helpers of the properties ----
RECURSIVE SumQuantity(_)
SumQuantity(s) == IF s = <<>> THEN 0 ELSE Head(s).quantity + SumQuantity(Tail(s))

Min(a, b) == IF a <= b THEN a ELSE b

\* the bids that clear the reserve price
EligibleBids == SelectSeq(bids, LAMBDA b : b.amount >= auction.reserve_price)

InSinglePrice == pc \in {"scan", "collect", "done"}

Done == pc = "done"

\* position k of the scan ended in a partial fill
PartialAt(k) == winning_bids[k].quantity < sorted_bids[k].quantity

TypeOK ==
    /\ pc \in {"builder", "built", "single_price", "multi_price", "scan",
               "collect", "done"}
    /\ Len(bids) <= MaxBids
    /\ Len(winning_bids) <= Len(sorted_bids)
    /\ Len(sales) <= Len(winning_bids)

\* the position in the caller's vector of the bid with the given id
PosInBids(id) == CHOOSE j \in 1..Len(bids) : bids[j].id = id

\* the accepted bids are a prefix of the sorted bids: every iteration either
\* accepts the bid it looks at or leaves the loop
Prefix(s, k) == SubSeq(s, 1, k)

\* ---- C1 ----
\* C1: at every step of the scan remaining_lots is not negative and the
\* quantities accepted so far sum to at most auction.lots; the quantities of
\* the returned sales sum to at most auction.lots.
C1_SalesWithinLots ==
    /\ InSinglePrice =>
          /\ remaining_lots >= 0
          /\ SumQuantity(winning_bids) <= auction.lots
    /\ Done => SumQuantity(sales) <= auction.lots

\* a resolution that sold every lot, the last one through a partial fill
C1_Witness ==
    /\ Done
    /\ Len(sales) >= 2
    /\ SumQuantity(sales) = auction.lots
    /\ PartialAt(Len(winning_bids))

\* ---- C2 ----
\* C2: every returned sale has amount >= reserve_price, the bid a sale comes
\* from has amount >= reserve_price, and a bid priced exactly at the reserve
\* that the lots still cover is sold in full.
C2_ReserveRespected ==
    Done =>
      /\ \A k \in 1..Len(sales) :
            /\ sales[k].amount >= auction.reserve_price
            /\ sorted_bids[k].amount >= auction.reserve_price
      /\ \A k \in 1..Len(sorted_bids) :
            (/\ sorted_bids[k].amount = auction.reserve_price
             /\ SumQuantity(Prefix(sorted_bids, k)) <= auction.lots)
            => /\ k <= Len(sales)
               /\ sales[k].quantity = sorted_bids[k].quantity

\* a bid at the reserve price won units while a bid below it was left out
C2_Witness ==
    /\ Done
    /\ \E k \in 1..Len(sales) :
          /\ sorted_bids[k].amount = auction.reserve_price
          /\ sales[k].quantity > 0
    /\ \E j \in 1..Len(bids) : bids[j].amount < auction.reserve_price
    /\ Len(sales) < Len(bids)

\* ---- C3 ----
\* C3: when sales are returned they all carry one amount, the least amount
\* among the accepted bids, which is the amount of the last accepted bid and
\* is no more than what the bid behind each sale offered.
C3_UniformClearingPrice ==
    (Done /\ sales # <<>>) =>
      /\ \A k \in 1..Len(sales) :
            /\ sales[k].amount = sales[1].amount
            /\ sales[k].amount <= winning_bids[k].amount
            /\ sales[k].amount <= sorted_bids[k].amount
      /\ \E k \in 1..Len(winning_bids) : winning_bids[k].amount = sales[1].amount
      /\ sales[1].amount = winning_bids[Len(winning_bids)].amount
      /\ Len(sales) = Len(winning_bids)

\* two winners that bid different amounts pay the lower one
C3_Witness ==
    /\ Done
    /\ Len(sales) >= 2
    /\ sorted_bids[1].amount > sales[1].amount
    /\ sales[1].quantity > 0

\* ---- C4 ----
\* C4: every returned sale carries the id of the input bid that won it, also
\* when that bid was partially filled, so every bidder_id is the id of a bid
\* of the input collection.
C4_SaleCarriesBidId ==
    Done =>
      \A k \in 1..Len(sales) :
         /\ sales[k].bidder_id = sorted_bids[k].id
         /\ \E j \in 1..Len(bids) : bids[j].id = sales[k].bidder_id

\* ---- C5 ----
\* C5: when the bids' total quantity is at most lots and every bid clears the
\* reserve, there is exactly one sale per input bid, for the bid's quantity.
C5_AllBidsWinInFull ==
    (/\ Done
     /\ SumQuantity(bids) <= auction.lots
     /\ \A j \in 1..Len(bids) : bids[j].amount >= auction.reserve_price)
    => /\ Len(sales) = Len(bids)
       /\ \A j \in 1..Len(bids) :
             Cardinality({k \in 1..Len(sales) :
                             /\ sales[k].bidder_id = bids[j].id
                             /\ sales[k].quantity = bids[j].quantity}) = 1

\* several bids that together ask for exactly the lots all won
C5_Witness ==
    /\ Done
    /\ Len(bids) >= 2
    /\ auction.lots > 0
    /\ SumQuantity(bids) = auction.lots
    /\ \A j \in 1..Len(bids) : bids[j].amount >= auction.reserve_price
    /\ Len(sales) = Len(bids)

\* ---- C6 ----
\* C6: a bid larger than the remaining lots (> 0) is awarded exactly the
\* remaining lots, its sale is the last of the result (no bid ranked after it
\* is accepted, whatever its quantity), the clearing price is its amount, and
\* at most one sale is a partial fill.
C6_PartialFillEndsScan ==
    Done =>
      /\ \A k \in 1..Len(winning_bids) :
            PartialAt(k) =>
              /\ winning_bids[k].quantity =
                    auction.lots - SumQuantity(Prefix(sorted_bids, k - 1))
              /\ k = Len(sales)
              /\ \A m \in 1..Len(sales) : sales[m].amount = sorted_bids[k].amount
      /\ Cardinality({k \in 1..Len(winning_bids) : PartialAt(k)}) <= 1

\* ---- C7 ----
\* C7: the result is empty when there are no bids, when no bid has
\* amount >= reserve_price, and when lots = 0 whatever the bids.
C7_AnomaliesYieldNoSales ==
    (/\ Done
     /\ \/ bids = <<>>
        \/ \A j \in 1..Len(bids) : bids[j].amount < auction.reserve_price
        \/ auction.lots = 0)
    => sales = <<>>

\* ---- C8 ----
\* C8: however the builder was created, build() gives every field that was
\* never set its default (lots 1, reserve_price 0, strategy SinglePrice) and
\* every field that was set the last value set.
C8_BuildAppliesDefaults ==
    pc # "builder" =>
      /\ auction.lots = UnwrapOr(last_set.lots, 1)
      /\ auction.reserve_price = UnwrapOr(last_set.reserve_price, 0)
      /\ auction.strategy = UnwrapOr(last_set.strategy, "SinglePrice")

\* ---- C9 ----
\* C9: the bids are scanned, accepted and sold in descending order of amount,
\* bids of equal amount in their input order; of two bids of equal amount the
\* later one is served only after the earlier one, and gets units only when
\* the earlier one was served in full.
C9_StableDescendingOrder ==
    InSinglePrice =>
      /\ Len(sorted_bids) = Len(bids)
      /\ \A i, j \in 1..Len(sorted_bids) :
            i < j =>
              /\ sorted_bids[i].amount >= sorted_bids[j].amount
              /\ sorted_bids[i].amount = sorted_bids[j].amount
                    => PosInBids(sorted_bids[i].id) < PosInBids(sorted_bids[j].id)
      /\ \A k \in 1..Len(winning_bids) :
            winning_bids[k].amount = sorted_bids[k].amount
      /\ Done =>
            \A i, j \in 1..Len(bids) :
               (i < j /\ bids[i].amount = bids[j].amount) =>
                  \A kj \in 1..Len(sales) :
                     sorted_bids[kj].id = bids[j].id =>
                        \E ki \in 1..(kj - 1) :
                           /\ sorted_bids[ki].id = bids[i].id
                           /\ sales[kj].quantity > 0
                                 => sales[ki].quantity = bids[i].quantity

\* two bids of one amount that the lots do not both cover, given in the input
\* after a lower bid: the earlier of the two got units, the later got none
C9_Witness ==
    /\ Done
    /\ \E i, j \in 1..Len(bids) :
          /\ i < j
          /\ bids[i].amount = bids[j].amount
          /\ bids[i].quantity > 0
          /\ bids[j].quantity > 0
          /\ bids[i].quantity + bids[j].quantity > auction.lots
          /\ \E h \in 1..(i - 1) : bids[h].amount < bids[i].amount
          /\ \E k \in 1..Len(sales) :
                /\ sorted_bids[k].id = bids[i].id
                /\ sales[k].quantity > 0
          /\ \A k \in 1..Len(sales) : sorted_bids[k].id # bids[j].id

\* ---- C10 ----
\* C10: the quantities sold sum to the lesser of lots and the total quantity
\* of the bids with amount >= reserve_price.
C10_NoLotLeftUnsold ==
    Done => SumQuantity(sales) = Min(auction.lots, SumQuantity(EligibleBids))

\* eligible demand exceeded the lots, and the last lot went to a partial fill
C10_Witness ==
    /\ Done
    /\ auction.lots > 0
    /\ SumQuantity(EligibleBids) > auction.lots
    /\ SumQuantity(sales) = auction.lots
    /\ \E k \in 1..Len(winning_bids) : PartialAt(k)
    /\ Len(EligibleBids) < Len(bids)

====
